---------------------------- MODULE Spec2Model ----------------------------
(***************************************************************************)
(* Model of src/brick_breaker.py (class BrickBreakerGame).                 *)
(*                                                                         *)
(* Numbers.  The program computes with Python floats.  The model keeps     *)
(* every length and velocity as an integer number of 1/Unit pixels         *)
(* (Unit = 1000), so 4.5 px is 4500.  Every value the program computes     *)
(* without math.sin / math.cos (positions before the first paddle bounce,  *)
(* the brick grid of the chosen fields, the paddle) is a multiple of       *)
(* 1/1000 px and is represented exactly.  math.sin and math.cos are        *)
(* computed by their Taylor polynomials in 1/1000 fixed point.             *)
(***************************************************************************)
EXTENDS Integers, Sequences, FiniteSets, TLC

VARIABLES
    width, height, rows, columns,      \* constructor arguments (fixed after construction)
    paddle_x,
    ball_x, ball_y, ball_vx, ball_vy,
    score, game_over, win,
    left_pressed, right_pressed,
    bricks,                            \* sequence of Brick records, storage order
    op,                                \* the operation that produced this state
    pre,                               \* the fields as they were before that operation
    ticks,                             \* _update calls on a running game since construction/reset
    last_left, last_right,             \* the latest left / right key event since construction/reset
    pc,                                \* where each start() coroutine stands
    cur,                               \* the coroutine the event loop is running (0: none)
    shown,                             \* the frame the latest _draw put on the canvas
    who,                               \* the coroutine that ran the latest loop step (0: none yet)
    updated,                           \* per coroutine, the object as its latest _update left it
    ended                              \* per coroutine, whether its latest _update left game_over set

config == <<width, height, rows, columns>>
history == <<last_left, last_right>>
loops == <<pc, cur, shown, who, updated, ended>>
vars == <<width, height, rows, columns, paddle_x, ball_x, ball_y, ball_vx, ball_vy,
          score, game_over, win, left_pressed, right_pressed, bricks, op, pre, ticks,
          last_left, last_right, pc, cur, shown, who, updated, ended>>

---------------------------------------------------------------------------
(* Units and the constants set in __init__ / _create_bricks *)

Unit == 1000

paddle_width  == 90000
paddle_height == 12000
paddle_speed  == 6000
ball_radius   == 6000
ball_speed    == 4500
padding       == 6000
offset_top    == 40000
offset_left   == 30000
brick_height  == 16000
paddle_top_offset == 30000
ball_start_offset == 40000
score_per_brick == 10

(* Bounds of the exploration *)
MaxTicks == 24          \* _update calls explored after construction or reset
ScenarioTicks == 2      \* _update calls explored from a scenario's prepared state
PlayTicks == 350        \* _update calls explored in the long play

---------------------------------------------------------------------------
(* Arithmetic helpers *)

Abs(n) == IF n < 0 THEN -n ELSE n
Max(a, b) == IF a >= b THEN a ELSE b
Min(a, b) == IF a <= b THEN a ELSE b

\* Division rounding to nearest, symmetric about 0 (d > 0).
RoundDiv(n, d) == IF n >= 0 THEN (2 * n + d) \div (2 * d)
                            ELSE -((2 * (-n) + d) \div (2 * d))

\* Product of two fixed-point numbers.
FMul(a, b) == RoundDiv(a * b, Unit)

\* math.sin, math.cos for |a| <= about 1 rad (a in 1/1000 rad), Taylor polynomials.
math_sin(a) ==
    LET a2 == FMul(a, a)
        a3 == FMul(a2, a)
        a5 == FMul(a3, a2)
        a7 == FMul(a5, a2)
    IN  a - RoundDiv(a3, 6) + RoundDiv(a5, 120) - RoundDiv(a7, 5040)

math_cos(a) ==
    LET a2 == FMul(a, a)
        a4 == FMul(a2, a2)
        a6 == FMul(a4, a2)
        a8 == FMul(a4, a4)
    IN  Unit - RoundDiv(a2, 2) + RoundDiv(a4, 24) - RoundDiv(a6, 720) + RoundDiv(a8, 40320)

\* (hit_pos - 0.5) * math.pi / 2.2 with hit_pos = d / paddle_width:
\* (d - paddle_width/2) * pi / (2.2 * paddle_width), pi = 3.14159265.
\* 1 / 630254 = pi / (2.2 * 90000 * 10000) to six digits.
Angle(d) == RoundDiv((d - paddle_width \div 2) * 10000, 630254)

---------------------------------------------------------------------------
(* The object: a record of the mutable fields plus the constructor arguments *)

Brick(x, y, w, h) == [x |-> x, y |-> y, width |-> w, height |-> h, alive |-> TRUE]

\* _create_bricks: rows * columns bricks, row-major.
brick_width(w, cols) == (w - 2 * offset_left - (cols - 1) * padding) \div cols

create_bricks(w, rws, cols) ==
    [i \in 1..(rws * cols) |->
        LET row == (i - 1) \div cols
            col == (i - 1) % cols
        IN  Brick(offset_left + col * (brick_width(w, cols) + padding),
                  offset_top + row * (brick_height + padding),
                  brick_width(w, cols), brick_height)]

\* __init__: the fields of a freshly constructed game.
new_game(w, h, rws, cols) ==
    [width |-> w, height |-> h, rows |-> rws, columns |-> cols,
     paddle_x |-> (w - paddle_width) \div 2,
     ball_x |-> w \div 2,
     ball_y |-> h - ball_start_offset,
     ball_vx |-> ball_speed,
     ball_vy |-> -ball_speed,
     score |-> 0, game_over |-> FALSE, win |-> FALSE,
     left_pressed |-> FALSE, right_pressed |-> FALSE,
     bricks |-> create_bricks(w, rws, cols)]

\* The current object as a record.
Self ==
    [width |-> width, height |-> height, rows |-> rows, columns |-> columns,
     paddle_x |-> paddle_x,
     ball_x |-> ball_x, ball_y |-> ball_y, ball_vx |-> ball_vx, ball_vy |-> ball_vy,
     score |-> score, game_over |-> game_over, win |-> win,
     left_pressed |-> left_pressed, right_pressed |-> right_pressed,
     bricks |-> bricks]

\* Assignment of a record to the object (the constructor arguments never change).
Becomes(g) ==
    /\ paddle_x' = g.paddle_x
    /\ ball_x' = g.ball_x /\ ball_y' = g.ball_y
    /\ ball_vx' = g.ball_vx /\ ball_vy' = g.ball_vy
    /\ score' = g.score /\ game_over' = g.game_over /\ win' = g.win
    /\ left_pressed' = g.left_pressed /\ right_pressed' = g.right_pressed
    /\ bricks' = g.bricks
    /\ UNCHANGED config

---------------------------------------------------------------------------
(* The simulation step *)


\* Variant of _move_paddle without the final clamp.
move_paddle_no_clamp(g) ==
    LET x1 == IF g.left_pressed THEN g.paddle_x - paddle_speed ELSE g.paddle_x
        x2 == IF g.right_pressed THEN x1 + paddle_speed ELSE x1
    IN  [g EXCEPT !.paddle_x = x2]

\* Variant of _move_paddle that clamps after each of the two moves.
move_paddle_clamps_each_move(g) ==
    LET hi == g.width - paddle_width
        x1 == IF g.left_pressed THEN Max(0, Min(hi, g.paddle_x - paddle_speed))
                                ELSE g.paddle_x
        x2 == IF g.right_pressed THEN x1 + paddle_speed ELSE x1
    IN  [g EXCEPT !.paddle_x = Max(0, Min(hi, x2))]

move_paddle(g) ==
    LET x1 == IF g.left_pressed THEN g.paddle_x - paddle_speed ELSE g.paddle_x
        x2 == IF g.right_pressed THEN x1 + paddle_speed ELSE x1
    IN  [g EXCEPT !.paddle_x = Max(0, Min(g.width - paddle_width, x2))]


\* Variant of _move_ball that reflects at the right wall only.
move_ball_no_left_wall(g) ==
    LET x == g.ball_x + g.ball_vx
        y == g.ball_y + g.ball_vy
        vx == IF x >= g.width - ball_radius THEN -g.ball_vx ELSE g.ball_vx
        vy == IF y <= ball_radius THEN -g.ball_vy ELSE g.ball_vy
    IN  [g EXCEPT !.ball_x = x, !.ball_y = y, !.ball_vx = vx, !.ball_vy = vy,
                  !.game_over = IF y >= g.height - ball_radius THEN TRUE ELSE g.game_over]

move_ball(g) ==
    LET x == g.ball_x + g.ball_vx
        y == g.ball_y + g.ball_vy
        vx == IF x <= ball_radius \/ x >= g.width - ball_radius THEN -g.ball_vx ELSE g.ball_vx
        vy == IF y <= ball_radius THEN -g.ball_vy ELSE g.ball_vy
    IN  [g EXCEPT !.ball_x = x, !.ball_y = y, !.ball_vx = vx, !.ball_vy = vy,
                  !.game_over = IF y >= g.height - ball_radius THEN TRUE ELSE g.game_over]

PaddleHit(g) ==
    LET paddle_top == g.height - paddle_top_offset
    IN  /\ paddle_top - ball_radius <= g.ball_y
        /\ g.ball_y <= paddle_top + paddle_height
        /\ g.paddle_x - ball_radius <= g.ball_x
        /\ g.ball_x <= g.paddle_x + paddle_width + ball_radius
        /\ g.ball_vy > 0

\* Variant of _collide_with_paddle without the test of the ball's direction.
collide_with_paddle_any_direction(g) ==
    LET paddle_top == g.height - paddle_top_offset
    IN  IF /\ paddle_top - ball_radius <= g.ball_y
           /\ g.ball_y <= paddle_top + paddle_height
           /\ g.paddle_x - ball_radius <= g.ball_x
           /\ g.ball_x <= g.paddle_x + paddle_width + ball_radius
        THEN LET angle == Angle(g.ball_x - g.paddle_x)
             IN  [g EXCEPT !.ball_vx = FMul(ball_speed, math_sin(angle)),
                           !.ball_vy = -Abs(FMul(ball_speed, math_cos(angle)))]
        ELSE g

collide_with_paddle(g) ==
    IF PaddleHit(g)
    THEN LET angle == Angle(g.ball_x - g.paddle_x)
         IN  [g EXCEPT !.ball_vx = FMul(ball_speed, math_sin(angle)),
                       !.ball_vy = -Abs(FMul(ball_speed, math_cos(angle)))]
    ELSE g

BrickHit(g, b) ==
    /\ b.alive
    /\ b.x - ball_radius <= g.ball_x
    /\ g.ball_x <= b.x + b.width + ball_radius
    /\ b.y - ball_radius <= g.ball_y
    /\ g.ball_y <= b.y + b.height + ball_radius

AllDead(bs) == \A i \in DOMAIN bs : ~bs[i].alive


\* Variant of _collide_with_bricks that reports a win as soon as any brick is gone.
collide_with_bricks_win_on_any(g) ==
    LET hits == {i \in DOMAIN g.bricks : BrickHit(g, g.bricks[i])}
        g1 == IF hits = {} THEN g
              ELSE LET first == CHOOSE i \in hits : \A j \in hits : i <= j
                   IN  [g EXCEPT !.bricks[first].alive = FALSE,
                                 !.score = g.score + score_per_brick,
                                 !.ball_vy = -g.ball_vy]
    IN  IF \E i \in DOMAIN g1.bricks : ~g1.bricks[i].alive
        THEN [g1 EXCEPT !.win = TRUE, !.game_over = TRUE]
        ELSE g1

\* Variant of _collide_with_bricks that tests for the win before the scan.
collide_with_bricks_win_before_scan(g) ==
    LET hits == {i \in DOMAIN g.bricks : BrickHit(g, g.bricks[i])}
        g0 == IF AllDead(g.bricks)
              THEN [g EXCEPT !.win = TRUE, !.game_over = TRUE]
              ELSE g
    IN  IF hits = {} THEN g0
        ELSE LET first == CHOOSE i \in hits : \A j \in hits : i <= j
             IN  [g0 EXCEPT !.bricks[first].alive = FALSE,
                            !.score = g.score + score_per_brick,
                            !.ball_vy = -g.ball_vy]

\* Variant of _collide_with_bricks without the break: every brick hit is destroyed.
collide_with_bricks_no_break(g) ==
    LET hits == {i \in DOMAIN g.bricks : BrickHit(g, g.bricks[i])}
        g1 == [g EXCEPT !.bricks = [i \in DOMAIN g.bricks |->
                                       IF i \in hits
                                       THEN [g.bricks[i] EXCEPT !.alive = FALSE]
                                       ELSE g.bricks[i]],
                        !.score = g.score + score_per_brick * Cardinality(hits),
                        !.ball_vy = IF Cardinality(hits) % 2 = 1 THEN -g.ball_vy
                                    ELSE g.ball_vy]
    IN  IF AllDead(g1.bricks)
        THEN [g1 EXCEPT !.win = TRUE, !.game_over = TRUE]
        ELSE g1

collide_with_bricks(g) ==
    LET hits == {i \in DOMAIN g.bricks : BrickHit(g, g.bricks[i])}
        g1 == IF hits = {} THEN g
              ELSE LET first == CHOOSE i \in hits : \A j \in hits : i <= j
                   IN  [g EXCEPT !.bricks[first].alive = FALSE,
                                 !.score = g.score + score_per_brick,
                                 !.ball_vy = -g.ball_vy]
    IN  IF AllDead(g1.bricks)
        THEN [g1 EXCEPT !.win = TRUE, !.game_over = TRUE]
        ELSE g1


\* Variant of _update without the game_over guard.
update_no_guard(g) ==
    collide_with_bricks(collide_with_paddle(move_ball(move_paddle(g))))

update(g) ==
    IF g.game_over THEN g
    ELSE collide_with_bricks(collide_with_paddle(move_ball(move_paddle(g))))


\* Variant of reset that leaves the score as it is.
reset_keeps_score(g) ==
    [g EXCEPT !.paddle_x = (g.width - paddle_width) \div 2,
              !.ball_x = g.width \div 2,
              !.ball_y = g.height - ball_start_offset,
              !.ball_vx = ball_speed,
              !.ball_vy = -ball_speed,
              !.game_over = FALSE, !.win = FALSE,
              !.left_pressed = FALSE, !.right_pressed = FALSE,
              !.bricks = create_bricks(g.width, g.rows, g.columns)]

\* Variant of reset that leaves the input flags as they are.
reset_keeps_flags(g) ==
    [g EXCEPT !.paddle_x = (g.width - paddle_width) \div 2,
              !.ball_x = g.width \div 2,
              !.ball_y = g.height - ball_start_offset,
              !.ball_vx = ball_speed,
              !.ball_vy = -ball_speed,
              !.score = 0, !.game_over = FALSE, !.win = FALSE,
              !.bricks = create_bricks(g.width, g.rows, g.columns)]

reset(g) ==
    [g EXCEPT !.paddle_x = (g.width - paddle_width) \div 2,
              !.ball_x = g.width \div 2,
              !.ball_y = g.height - ball_start_offset,
              !.ball_vx = ball_speed,
              !.ball_vy = -ball_speed,
              !.score = 0, !.game_over = FALSE, !.win = FALSE,
              !.left_pressed = FALSE, !.right_pressed = FALSE,
              !.bricks = create_bricks(g.width, g.rows, g.columns)]

LeftKeys  == {"ArrowLeft", "a", "A"}
RightKeys == {"ArrowRight", "d", "D"}
Keys == LeftKeys \cup RightKeys \cup {"w", " "}

\* Variant of _handle_key_down in which the space bar restarts a finished game.
handle_key_down_space_restarts(g, key) ==
    IF key = " " /\ g.game_over THEN reset(g)
    ELSE LET g1 == IF key \in LeftKeys THEN [g EXCEPT !.left_pressed = TRUE] ELSE g
         IN  IF key \in RightKeys THEN [g1 EXCEPT !.right_pressed = TRUE] ELSE g1

handle_key_down(g, key) ==
    LET g1 == IF key \in LeftKeys THEN [g EXCEPT !.left_pressed = TRUE] ELSE g
    IN  IF key \in RightKeys THEN [g1 EXCEPT !.right_pressed = TRUE] ELSE g1

\* Variant of _handle_key_up that releases both flags on any left or right key.
handle_key_up_clears_both(g, key) ==
    IF key \in LeftKeys \cup RightKeys
    THEN [g EXCEPT !.left_pressed = FALSE, !.right_pressed = FALSE]
    ELSE g

handle_key_up(g, key) ==
    LET g1 == IF key \in LeftKeys THEN [g EXCEPT !.left_pressed = FALSE] ELSE g
    IN  IF key \in RightKeys THEN [g1 EXCEPT !.right_pressed = FALSE] ELSE g1

---------------------------------------------------------------------------
(* Rendering and the start() loop *)

\* The draw commands of one frame: a rectangle per alive brick in storage order,
\* the paddle rectangle, the ball circle, the score label and, in a finished
\* game, the overlay message.
Frame(g) ==
    LET alive == SelectSeq(g.bricks, LAMBDA b : b.alive)
    IN  [bricks |-> [i \in DOMAIN alive |->
                        <<alive[i].x, alive[i].y, alive[i].width, alive[i].height>>],
         paddle |-> <<g.paddle_x, g.height - paddle_top_offset, paddle_width, paddle_height>>,
         ball |-> <<g.ball_x, g.ball_y, ball_radius>>,
         score |-> g.score,
         message |-> IF g.game_over
                     THEN (IF g.win THEN "You win!" ELSE "Game over")
                     ELSE "none"]


\* Variant of _draw that releases the input flags while it paints.
draw_releases_flags(g) ==
    [self |-> [g EXCEPT !.left_pressed = FALSE, !.right_pressed = FALSE],
     frame |-> Frame(g)]

\* _draw: the object after the call and the frame put on the canvas.
draw(g) == [self |-> g, frame |-> Frame(g)]


\* Variant of the loop condition that never ends the loop.
loop_test_forever(g) == "update"

\* The loop condition of start(): the statement the coroutine runs next.
loop_test(g) == IF g.game_over THEN "final" ELSE "update"


\* Variant of the loop body that also awaits between _update and _draw.
resume_yields_before_draw(i, at) == IF at \in {"draw", "sleep", "done"} THEN 0 ELSE i

\* The coroutine the event loop runs next when coroutine i has reached statement
\* `at`: i itself, except at the await of the sleep and after the return.
resume(i, at) == IF at \in {"sleep", "done"} THEN 0 ELSE i

---------------------------------------------------------------------------
(* Constructor arguments explored: <<width, height, rows, columns>> in pixels *)

\* The default game; a small field of the usual layout; a field whose brick row
\* reaches the floor; a field whose two brick rows both hold the first ball
\* position; a field narrower than the paddle.
Fields == { <<600, 400, 5, 10>>, <<200, 120, 1, 2>>, <<120, 63, 1, 1>>,
            <<102, 102, 2, 1>>, <<80, 100, 1, 1>> }

NoPre == [none |-> TRUE]

\* The start() coroutines of the model, and the state of one that was never called.
Loops == {1, 2}
NoLoops == [i \in Loops |-> "off"]

\* The object g right after construction (or after the assignments of a scenario),
\* with t ticks of the exploration already spent and no start() called.
Constructed(g, t) ==
    /\ width = g.width /\ height = g.height
    /\ rows = g.rows /\ columns = g.columns
    /\ paddle_x = g.paddle_x
    /\ ball_x = g.ball_x /\ ball_y = g.ball_y
    /\ ball_vx = g.ball_vx /\ ball_vy = g.ball_vy
    /\ score = g.score /\ game_over = g.game_over /\ win = g.win
    /\ left_pressed = g.left_pressed /\ right_pressed = g.right_pressed
    /\ bricks = g.bricks
    /\ op = "init" /\ pre = NoPre /\ ticks = t
    /\ last_left = "none" /\ last_right = "none"
    /\ pc = NoLoops /\ cur = 0 /\ shown = NoPre
    /\ who = 0 /\ updated = [i \in Loops |-> NoPre] /\ ended = [i \in Loops |-> "no"]

Init ==
    \E f \in Fields : Constructed(new_game(f[1] * Unit, f[2] * Unit, f[3], f[4]), 0)

\* The canvas delivers key events, and a caller runs reset() or _update(), while
\* no coroutine is running (the event loop is between callbacks).
KeyDown ==
    \E key \in Keys :
        /\ cur = 0
        /\ Becomes(handle_key_down(Self, key))
        /\ op' = "key_down" /\ pre' = NoPre
        /\ last_left' = IF key \in LeftKeys THEN "down" ELSE last_left
        /\ last_right' = IF key \in RightKeys THEN "down" ELSE last_right
        /\ UNCHANGED <<ticks, loops>>

KeyUp ==
    \E key \in Keys :
        /\ cur = 0
        /\ Becomes(handle_key_up(Self, key))
        /\ op' = "key_up" /\ pre' = NoPre
        /\ last_left' = IF key \in LeftKeys THEN "up" ELSE last_left
        /\ last_right' = IF key \in RightKeys THEN "up" ELSE last_right
        /\ UNCHANGED <<ticks, loops>>

UpdateWithin(n) ==
    /\ cur = 0
    /\ ticks < n
    /\ Becomes(update(Self))
    /\ op' = "update" /\ pre' = Self
    /\ ticks' = IF game_over THEN ticks ELSE ticks + 1
    /\ UNCHANGED <<history, loops>>

Update == UpdateWithin(MaxTicks)

Reset ==
    /\ cur = 0
    /\ Becomes(reset(Self))
    /\ op' = "reset" /\ pre' = Self
    /\ ticks' = 0
    /\ last_left' = "none" /\ last_right' = "none"
    /\ ended' = [i \in Loops |-> IF ended[i] = "over" /\ pc[i] = "sleep"
                                  THEN "revived" ELSE ended[i]]
    /\ UNCHANGED <<pc, cur, shown, who, updated>>

Next == KeyDown \/ KeyUp \/ Update \/ Reset

Spec == Init /\ [][Next]_vars

---------------------------------------------------------------------------
(* Scenarios.  Section 8 of the specification states scenarios on a game    *)
(* whose ball and paddle fields have been assigned after construction       *)
(* ("ball at x = radius - 1 moving left").  ScenarioSpec starts from the    *)
(* default 600 x 400, 5 x 10 game with such an assignment: the ball at      *)
(* x = ball_radius - 1 moving left, at several heights, with either         *)
(* vertical direction, and the paddle at several positions within its       *)
(* bounds.  Every other field is as constructed.  _update is a function of  *)
(* the object's fields; the scenario draws its argument from these sets.    *)

ScenarioHeights == {100, 300, 362, 370, 380, 390}          \* ball_y, pixels
ScenarioVelocities == { <<-4500, 4500>>, <<-4500, -4500>>,  \* as constructed, mirrored
                        <<-2700, 3600>>, <<-2700, -3600>> } \* magnitude ball_speed
ScenarioPaddles == {0, 9, 255, 510}                         \* paddle_x, pixels

ScenarioInit ==
    \E y \in ScenarioHeights, v \in ScenarioVelocities, px \in ScenarioPaddles :
        LET g == [new_game(600 * Unit, 400 * Unit, 5, 10) EXCEPT
                     !.ball_x = ball_radius - Unit,
                     !.ball_y = y * Unit,
                     !.ball_vx = v[1], !.ball_vy = v[2],
                     !.paddle_x = px * Unit]
        IN  Constructed(g, MaxTicks - ScenarioTicks)

ScenarioSpec == ScenarioInit /\ [][Next]_vars

---------------------------------------------------------------------------
(* The start() loop.  A coroutine runs without interruption from one await  *)
(* to the next; key events, reset() and other coroutines run only while it  *)
(* is suspended in asyncio.sleep.  start() may be called more than once on  *)
(* the same object.                                                         *)

\* Fields on which a game ends within two ticks.
LoopFields == { <<102, 102, 2, 1>>, <<80, 100, 1, 1>> }

LoopInit ==
    \E f \in LoopFields : Constructed(new_game(f[1] * Unit, f[2] * Unit, f[3], f[4]), 0)

\* The event loop can run coroutine i: it is running it already, or it is idle
\* and resumes it.
Scheduled(i) == cur \in {0, i}

\* Coroutine i arrives at statement `at`.
Goes(i, at) ==
    /\ pc' = [pc EXCEPT ![i] = at]
    /\ cur' = resume(i, at)
    /\ who' = i

\* start() is called and runs up to the first evaluation of the loop condition.
Start(i) ==
    /\ pc[i] = "off" /\ Scheduled(i)
    /\ Goes(i, loop_test(Self))
    /\ op' = "start" /\ pre' = NoPre
    /\ UNCHANGED <<config, paddle_x, ball_x, ball_y, ball_vx, ball_vy, score, game_over,
                   win, left_pressed, right_pressed, bricks, ticks, history,
                   shown, updated, ended>>

\* The sleep of coroutine i is over; it evaluates the loop condition again.
Wake(i) ==
    /\ pc[i] = "sleep" /\ Scheduled(i)
    /\ Goes(i, loop_test(Self))
    /\ op' = "wake" /\ pre' = NoPre
    /\ UNCHANGED <<config, paddle_x, ball_x, ball_y, ball_vx, ball_vy, score, game_over,
                   win, left_pressed, right_pressed, bricks, ticks, history,
                   shown, updated, ended>>

\* self._update() in the loop body.
LoopUpdate(i) ==
    /\ pc[i] = "update" /\ Scheduled(i)
    /\ ticks < MaxTicks
    /\ Becomes(update(Self))
    /\ op' = "update" /\ pre' = Self
    /\ ticks' = IF game_over THEN ticks ELSE ticks + 1
    /\ Goes(i, "draw")
    /\ updated' = [updated EXCEPT ![i] = update(Self)]
    /\ ended' = [ended EXCEPT ![i] = IF update(Self).game_over THEN "over" ELSE "no"]
    /\ UNCHANGED <<history, shown>>

\* self._draw() in the loop body, then await asyncio.sleep(frame_delay).
LoopDraw(i) ==
    /\ pc[i] = "draw" /\ Scheduled(i)
    /\ Becomes(draw(Self).self)
    /\ shown' = draw(Self).frame
    /\ op' = "draw" /\ pre' = Self
    /\ Goes(i, "sleep")
    /\ UNCHANGED <<ticks, history, updated, ended>>

\* self._draw() after the loop, then the coroutine returns.
FinalDraw(i) ==
    /\ pc[i] = "final" /\ Scheduled(i)
    /\ Becomes(draw(Self).self)
    /\ shown' = draw(Self).frame
    /\ op' = "draw" /\ pre' = Self
    /\ Goes(i, "done")
    /\ UNCHANGED <<ticks, history, updated, ended>>

LoopNext ==
    \/ KeyDown \/ KeyUp \/ Reset
    \/ \E i \in Loops : Start(i) \/ Wake(i) \/ LoopUpdate(i) \/ LoopDraw(i) \/ FinalDraw(i)

LoopSpec == LoopInit /\ [][LoopNext]_vars

---------------------------------------------------------------------------
(* A long play of the default game.  The first paddle bounce of the default *)
(* game is at tick 96 at the earliest, so a play that shows what the paddle can do to the   *)
(* ball is some hundred ticks long.  PlaySpec follows one opening (the keys *)
(* held on each of the first 219 ticks, which take the ball over two        *)
(* paddle bounces) and then explores every sequence of key events and      *)
(* ticks up to PlayTicks.                                                   *)

\* The input held during tick t of the opening.
OpeningInput(t) ==
    IF t <= 76 THEN "none"
    ELSE IF t <= 96 THEN "right"
    ELSE IF t <= 217 THEN "none"
    ELSE IF t <= 219 THEN "right"
    ELSE "any"

\* The input the flags stand for.
Held ==
    IF left_pressed /\ right_pressed THEN "both"
    ELSE IF left_pressed THEN "left"
    ELSE IF right_pressed THEN "right"
    ELSE "none"

PlayInit == Constructed(new_game(600 * Unit, 400 * Unit, 5, 10), 0)

\* During the opening a key goes down only if the opening holds it on the next tick.
PlayKeyDown ==
    /\ KeyDown
    /\ OpeningInput(ticks + 1) # "any" => Held' = OpeningInput(ticks + 1) /\ Held' # Held

\* During the opening a key goes up only if the opening does not hold it on the next tick.
PlayKeyUp ==
    /\ KeyUp
    /\ OpeningInput(ticks + 1) # "any" =>
           Held' # Held /\ Held' \in {OpeningInput(ticks + 1), "none"}

\* During the opening a tick runs once the flags are the opening's input for it.
PlayUpdate ==
    /\ OpeningInput(ticks + 1) \in {"any", Held}
    /\ UpdateWithin(PlayTicks)

PlayNext == PlayKeyDown \/ PlayKeyUp \/ PlayUpdate

PlaySpec == PlayInit /\ [][PlayNext]_vars

---------------------------------------------------------------------------
(* Vocabulary of the properties *)

\* The last operation was an _update of a running game.
Ticked == op = "update" /\ ~pre.game_over

\* Bricks that the last operation turned from alive to not alive.
Destroyed == {i \in DOMAIN bricks : pre.bricks[i].alive /\ ~bricks[i].alive}

\* Bricks alive before the last operation whose radius-expanded box holds the ball centre.
Overlapped ==
    {i \in DOMAIN pre.bricks :
        /\ pre.bricks[i].alive
        /\ pre.bricks[i].x - ball_radius <= ball_x
        /\ ball_x <= pre.bricks[i].x + pre.bricks[i].width + ball_radius
        /\ pre.bricks[i].y - ball_radius <= ball_y
        /\ ball_y <= pre.bricks[i].y + pre.bricks[i].height + ball_radius}

SpeedSquared(vx, vy) == vx * vx + vy * vy

---------------------------------------------------------------------------
(* C1: in every state reached from construction by key events, _update     *)
(* ticks and reset() calls (field width at least the paddle width), the     *)
(* paddle satisfies 0 <= paddle_x <= width - paddle_width.                  *)
C1_PaddleInBounds ==
    width >= paddle_width => 0 <= paddle_x /\ paddle_x <= width - paddle_width

\* A tick in which the clamp cut a move to the right off at width - paddle_width.
C1_Witness ==
    /\ Ticked
    /\ width > paddle_width
    /\ pre.right_pressed /\ ~pre.left_pressed
    /\ pre.paddle_x + paddle_speed > width - paddle_width
    /\ paddle_x = width - paddle_width

(* C2: in every reachable state, score equals 10 times the number of bricks *)
(* whose alive flag is false.                                               *)
C2_ScoreCountsDeadBricks ==
    score = 10 * Cardinality({i \in DOMAIN bricks : ~bricks[i].alive})

\* A tick that destroyed the second brick of a game.
C2_Witness == Ticked /\ pre.score = 10 /\ score = 20

(* C3: in every reachable state, win implies that every brick is not alive  *)
(* and that game_over is true.                                              *)
C3_WinImpliesClearedAndOver ==
    win => (\A i \in DOMAIN bricks : ~bricks[i].alive) /\ game_over

\* A won game of a grid with more than one brick.
C3_Witness == win /\ Len(bricks) >= 2

(* C4: when game_over is true, _update leaves every field unchanged, with   *)
(* any values of the input flags.                                           *)
C4_UpdateAfterGameOverIsNoOp ==
    op = "update" /\ pre.game_over => Self = pre

\* An _update of a finished game with an input flag held.
C4_Witness ==
    op = "update" /\ pre.game_over /\ (pre.left_pressed \/ pre.right_pressed)

(* C5: from any reachable state reset() produces exactly the state of a     *)
(* freshly constructed game with the same dimensions.                       *)
C5_ResetIsFreshGame ==
    op = "reset" => Self = new_game(width, height, rows, columns)

\* A reset of a won game with an input flag held.
C5_Witness ==
    op = "reset" /\ pre.win /\ pre.score > 0 /\ (pre.left_pressed \/ pre.right_pressed)

(* C6: whenever an _update of a running game moves the ball to              *)
(* ball_y >= height - ball_radius, the state at the end of that _update has *)
(* game_over true and win false, for every field the constructor accepts.   *)
C6_LossIsNeverAWin ==
    Ticked /\ ball_y >= height - ball_radius => game_over /\ ~win

(* C7: on the tick of a running game in which the ball destroys the last    *)
(* alive brick, the state at the end of that _update has that brick not     *)
(* alive, score raised by exactly 10, win true and game_over true.          *)
C7_LastBrickWinsOnSameTick ==
    Ticked /\ Destroyed # {} /\ (\A i \in DOMAIN bricks : ~bricks[i].alive)
        => win /\ game_over /\ score = pre.score + 10

\* The last brick of a grid of two goes while the ball is above the floor.
C7_Witness ==
    /\ Ticked /\ Destroyed # {} /\ (\A i \in DOMAIN bricks : ~bricks[i].alive)
    /\ Len(bricks) >= 2 /\ ball_y < height - ball_radius

(* C8: a single _update destroys at most one brick; when the ball centre    *)
(* lies inside the radius-expanded boxes of several alive bricks the brick  *)
(* destroyed is the first of them in storage order, every other brick keeps *)
(* its alive flag and the score rises by exactly 10.                        *)
C8_FirstOverlappedBrickOnly ==
    Ticked =>
        /\ Cardinality(Destroyed) <= 1
        /\ \A i \in DOMAIN bricks : bricks[i].alive => pre.bricks[i].alive
        /\ Overlapped # {} =>
               /\ \E i \in Overlapped : (\A j \in Overlapped : i <= j) /\ Destroyed = {i}
               /\ score = pre.score + 10

\* A tick with the ball centre inside the boxes of two alive bricks.
C8_Witness == Ticked /\ Cardinality(Overlapped) >= 2

C9_PaddleFired ==
    LET y == pre.ball_y + pre.ball_vy
        vy == IF y <= ball_radius THEN -pre.ball_vy ELSE pre.ball_vy
    IN  /\ vy > 0
        /\ height - paddle_top_offset - ball_radius <= ball_y
        /\ ball_y <= height - paddle_top_offset + paddle_height
        /\ paddle_x - ball_radius <= ball_x
        /\ ball_x <= paddle_x + paddle_width + ball_radius

C10_SpeedMagnitudeConstant ==
    SpeedSquared(ball_vx, ball_vy) = SpeedSquared(ball_speed, -ball_speed)

(* C11: after any sequence of key-down and key-up events since construction *)
(* or reset, left_pressed is true exactly when the most recent event whose  *)
(* key is ArrowLeft/a/A was a key-down (false if there was none), likewise  *)
(* right_pressed for ArrowRight/d/D; an event for any other key leaves both *)
(* flags unchanged (it leaves last_left and last_right as they are, so a    *)
(* flag it changed would disagree with them); _update never changes a flag. *)
C11_FlagsFollowLatestKeyEvent ==
    /\ left_pressed <=> (last_left = "down")
    /\ right_pressed <=> (last_right = "down")
    /\ op = "update" =>
           left_pressed = pre.left_pressed /\ right_pressed = pre.right_pressed

\* A left key released while a right key stays held.
C11_Witness ==
    op = "key_up" /\ last_left = "up" /\ last_right = "down"
        /\ right_pressed /\ ~left_pressed

(* C12: if an _update performed by a start() loop sets game_over, that loop *)
(* performs no further _update, whatever key events and reset() calls       *)
(* arrive during the sleeps between ticks.                                  *)
C12_NoUpdateAfterGameOver ==
    \A i \in Loops : ended[i] \in {"over", "revived"} => pc[i] # "update"

(* C12 as amended: if an _update performed by a start() loop sets game_over *)
(* and no reset() is called during the sleep that follows that _update,     *)
(* the loop performs no further _update: it is at the _draw of that tick,   *)
(* in the following sleep, at the final _draw (game_over still set) or has  *)
(* returned, and the final _draw before the return renders the state that   *)
(* _update produced, with the end-of-game message.                          *)
C12_NoUpdateAfterGameOverUnlessReset ==
    \A i \in Loops : ended[i] = "over" =>
        /\ pc[i] \in {"draw", "sleep", "final", "done"}
        /\ pc[i] \in {"draw", "sleep", "final"} => game_over
        /\ pc[i] = "done" /\ op = "draw" /\ who = i =>
               shown = Frame(updated[i]) /\ shown.message # "none"

\* A loop has returned after its final render, with a key pressed during its
\* last sleep still held.
C12_Witness ==
    \E i \in Loops :
        /\ ended[i] = "over" /\ pc[i] = "done" /\ op = "draw" /\ who = i
        /\ left_pressed /\ ~updated[i].left_pressed

(* C13: _draw leaves the whole simulation state unchanged: paddle, ball     *)
(* position and velocity, bricks, score, game_over, win and the input flags *)
(* are the same before and after any render, in running and terminal states.*)
C13_DrawLeavesStateUnchanged ==
    op = "draw" => Self = pre

\* A render of a won game with both input flags held.
C13_Witness ==
    op = "draw" /\ pre.game_over /\ pre.win /\ pre.left_pressed /\ pre.right_pressed

(* C14: a tick is atomic: a coroutine that is between the start of its      *)
(* _update and the end of the following _draw is the one the event loop is  *)
(* running, so no key handler, reset() or step of another start() loop runs *)
(* in between; at the _draw the object is as this coroutine's _update left  *)
(* it, and the frame rendered is the frame of that state, also with start() *)
(* called twice.                                                            *)
C14_TickIsAtomic ==
    /\ \A i \in Loops : pc[i] \in {"update", "draw", "final"} => cur = i
    /\ \A i \in Loops : pc[i] = "draw" => op = "update" /\ who = i /\ Self = updated[i]
    /\ op = "draw" /\ pc[who] = "sleep" =>
           Self = updated[who] /\ shown = Frame(updated[who])

\* The second of two running loops has rendered its tick of a running game
\* while the first one sleeps.
C14_Witness ==
    /\ op = "draw" /\ who = 2 /\ pc[2] = "sleep" /\ pc[1] = "sleep"
    /\ ~game_over /\ score = 10 /\ updated[1] # updated[2]

(* C15: when left_pressed and right_pressed are both true at the start of  *)
(* a tick of a running game, _update leaves paddle_x unchanged, for every   *)
(* paddle position within bounds, the extremes 0 and width - paddle_width   *)
(* included.                                                                *)
C15_BothHeldPaddleStays ==
    /\ Ticked /\ pre.left_pressed /\ pre.right_pressed
    /\ 0 <= pre.paddle_x /\ pre.paddle_x <= width - paddle_width
    => paddle_x = pre.paddle_x

\* A tick with both flags held and the paddle at the left extreme of a field
\* wider than the paddle.
C15_Witness ==
    /\ Ticked /\ pre.left_pressed /\ pre.right_pressed
    /\ width > paddle_width /\ pre.paddle_x = 0 /\ paddle_x = 0

(* C16: the paddle collision step changes the ball velocity only when,     *)
(* after the ball move and wall reflection of that tick, ball_vy > 0 and    *)
(* the ball centre lies in the paddle's radius-expanded band; when it fires *)
(* ball_vy is strictly negative right after the step, and otherwise the     *)
(* step leaves ball_vx and ball_vy as they were.  The step changes no other *)
(* field, and the tick ends with the brick step applied to its result.      *)
C16_BeforePaddleStep == move_ball(move_paddle(pre))
C16_AfterPaddleStep == collide_with_paddle(C16_BeforePaddleStep)

C16_DescendingInBand ==
    LET g == C16_BeforePaddleStep
    IN  /\ g.ball_vy > 0
        /\ g.height - paddle_top_offset - ball_radius <= g.ball_y
        /\ g.ball_y <= g.height - paddle_top_offset + paddle_height
        /\ g.paddle_x - ball_radius <= g.ball_x
        /\ g.ball_x <= g.paddle_x + paddle_width + ball_radius

C16_PaddleStepOnlyWhenDescendingInBand ==
    Ticked =>
        /\ IF C16_DescendingInBand
           THEN C16_AfterPaddleStep.ball_vy < 0
           ELSE /\ C16_AfterPaddleStep.ball_vx = C16_BeforePaddleStep.ball_vx
                /\ C16_AfterPaddleStep.ball_vy = C16_BeforePaddleStep.ball_vy
        /\ C16_AfterPaddleStep =
               [C16_BeforePaddleStep EXCEPT !.ball_vx = C16_AfterPaddleStep.ball_vx,
                                            !.ball_vy = C16_AfterPaddleStep.ball_vy]
        /\ Self = collide_with_bricks(C16_AfterPaddleStep)

\* A tick on which the ball is in the band but moving up: the step does not fire.
C16_Witness ==
    /\ Ticked /\ ~C16_DescendingInBand
    /\ C16_BeforePaddleStep.ball_vy < 0
    /\ height - paddle_top_offset - ball_radius <= ball_y
    /\ ball_y <= height - paddle_top_offset + paddle_height
    /\ paddle_x - ball_radius <= ball_x
    /\ ball_x <= paddle_x + paddle_width + ball_radius
    /\ SpeedSquared(ball_vx, ball_vy) # SpeedSquared(ball_speed, ball_speed)

(* C17: between two resets the game only moves forward: in every step that *)
(* is not a reset() (an _update tick or a key event) no brick's alive flag  *)
(* changes from false to true, score does not decrease, and game_over and   *)
(* win do not change from true to false.                                    *)
C17_OnlyForwardBetweenResets ==
    [][ op' # "reset" =>
            /\ DOMAIN bricks' = DOMAIN bricks
            /\ \A i \in DOMAIN bricks : ~bricks[i].alive => ~bricks'[i].alive
            /\ score' >= score
            /\ game_over => game_over'
            /\ win => win' ]_vars

\* A key-down event has been handled in a won game.
C17_Witness ==
    op = "key_down" /\ game_over /\ win /\ score >= 10 /\ left_pressed

(* C18: in every reachable state of the default 600x400 game the ball      *)
(* centre stays horizontally inside the field, 0 <= ball_x <= width.        *)
C18_BallInsideField ==
    0 <= ball_x /\ ball_x <= width

=============================================================================
